---- MODULE Spec2Model ----
(***************************************************************************)
(* Account creation and lookup of the Stellar wallet backend.              *)
(*                                                                         *)
(* Spec   : the in-memory UserService (src/services/user_service.rs):      *)
(*          three mutex-guarded hash maps, concurrent callers.             *)
(* SpecDb : the SQLite store (src/database/sqlite.rs) driven by the        *)
(*          database-backed service the handlers call.                     *)
(***************************************************************************)
EXTENDS Integers, Sequences, FiniteSets, TLC

VARIABLES
    users,            \* UserService.users : HashMap<Uuid, User>
    email_index,      \* UserService.email_index : HashMap<String, Uuid>
    username_index,   \* UserService.username_index : HashMap<String, Uuid>
    holder,           \* owner of each of the three mutexes (0 = unlocked)
    table,            \* rows of the SQLite table "users"
    pc,               \* position of each caller inside its current call
    op,               \* the operation each caller is running
    request,          \* argument of the current call
    password_hash,    \* local of create_user
    user,             \* local of create_user: the User being built
    result,           \* value returned by the current call
    steps,            \* history: statements the current call has executed
    atStart,          \* history: was the email / username stored at call time
    returned,         \* history: every UserResponse returned with Ok
    uuid_next,        \* number of identifiers Uuid::new_v4 has produced
    clock,            \* Utc::now()
    calls             \* number of calls started

vars == <<users, email_index, username_index, holder, table, pc, op, request,
          password_hash, user, result, steps, atStart, returned, uuid_next,
          clock, calls>>

store == <<users, email_index, username_index>>
locals == <<password_hash, user>>

\* ---------------------------------------------------------------- bounds
NumProcs == 2
MaxCalls == 3

Procs == 1..NumProcs

\* ---------------------------------------------------------------- inputs
E1 == <<"a", "@", "b", ".", "c">>
E2 == <<"d", "@", "b", ".", "c">>
BadEmail == <<"a", "b">>
U1 == <<"a", "b", "c">>
U2 == <<"x", "y", "_">>
BadUsername == <<"a", "-">>
GoodPassword == <<"A", "b", "c", "d", "e", "f", "1", "!">>
WeakPassword == <<"a", "b", "c">>

Passwords == {GoodPassword, WeakPassword}

\* CreateUserRequest: well-formed requests of which two share the email, two
\* share the username and two share neither, and requests whose first invalid
\* field is the email, the username and the password
CreateUserRequest ==
    {[email |-> E1, username |-> U1, password |-> GoodPassword],
     [email |-> E1, username |-> U2, password |-> GoodPassword],
     [email |-> E2, username |-> U1, password |-> GoodPassword],
     [email |-> BadEmail, username |-> BadUsername, password |-> WeakPassword],
     [email |-> E1, username |-> BadUsername, password |-> WeakPassword],
     [email |-> E1, username |-> U1, password |-> WeakPassword]}

\* ---------------------------------------------------------------- values
None == <<>>
Some(x) == <<x>>

\* AppError
ValidationError(msg) == [kind |-> "ValidationError", msg |-> msg]
InternalError(msg) == [kind |-> "InternalError", msg |-> msg]
AuthenticationError(msg) == [kind |-> "AuthenticationError", msg |-> msg]

\* Result<T>
Ok(v) == [ok |-> TRUE, val |-> Some(v), err |-> None]
Err(e) == [ok |-> FALSE, val |-> None, err |-> Some(e)]
NoResult == [ok |-> FALSE, val |-> None, err |-> None]
IsErr(r) == ~r.ok /\ r.err # None

\* impl From<User> for UserResponse
UserResponse(u) ==
    [id |-> u.id, email |-> u.email, username |-> u.username,
     is_verified |-> u.is_verified, stellar_public_key |-> u.stellar_public_key,
     created_at |-> u.created_at]

\* ------------------------------------------------------------- Validator
Upper == {"A", "B", "C", "D", "E", "F", "G", "H", "I", "J", "K", "L", "M",
          "N", "O", "P", "Q", "R", "S", "T", "U", "V", "W", "X", "Y", "Z"}
Lower == {"a", "b", "c", "d", "e", "f", "g", "h", "i", "j", "k", "l", "m",
          "n", "o", "p", "q", "r", "s", "t", "u", "v", "w", "x", "y", "z"}
Digit == {"0", "1", "2", "3", "4", "5", "6", "7", "8", "9"}
Special == {"!", "@", "#", "$", "%", "^", "&", "*", "(", ")", "_", "+", "-",
            "=", "[", "]", "{", "}", "|", ";", ":", ",", ".", "<", ">", "?"}
MinUsernameLen == 3
MaxUsernameLen == 32
MinPasswordLen == 8

Chars(s) == {s[i] : i \in 1..Len(s)}

\* local@domain, both parts non-empty, the domain containing a "."
validate_email(s) ==
    IF \E i \in 1..Len(s) :
          /\ s[i] = "@"
          /\ i > 1
          /\ i < Len(s)
          /\ \E j \in (i + 1)..Len(s) : s[j] = "."
    THEN None
    ELSE Some(ValidationError("Invalid email format"))

validate_username(s) ==
    IF /\ Len(s) >= MinUsernameLen
       /\ Len(s) <= MaxUsernameLen
       /\ Chars(s) \subseteq (Upper \cup Lower \cup Digit \cup {"_"})
    THEN None
    ELSE Some(ValidationError("Invalid username"))

validate_password(s) ==
    IF /\ Len(s) >= MinPasswordLen
       /\ Chars(s) \cap Upper # {}
       /\ Chars(s) \cap Lower # {}
       /\ Chars(s) \cap Digit # {}
       /\ Chars(s) \cap Special # {}
    THEN None
    ELSE Some(ValidationError("Weak password"))

\* ------------------------------------------------------- PasswordManager
\* A stored hash embeds what verify needs to recompute it.
hash_password(p) == [algorithm |-> "salted", of |-> p]
verify_password(p, h) == h.of = p

\* --------------------------------------------------------------- helpers
contains_key(m, k) == k \in DOMAIN m
insert(m, k, v) == [x \in DOMAIN m \cup {k} |-> IF x = k THEN v ELSE m[x]]
get(m, k) == IF k \in DOMAIN m THEN Some(m[k]) ELSE None
EmptyMap == [x \in {} |-> 0]

Append1(p, s) == [steps EXCEPT ![p] = Append(@, s)]

\* ------------------------------------------------------------------ Init
\* UserService::new
Init ==
    /\ users = EmptyMap
    /\ email_index = EmptyMap
    /\ username_index = EmptyMap
    /\ holder = [m \in {"users", "email_index", "username_index"} |-> 0]
    /\ table = {}
    /\ pc = [p \in Procs |-> "idle"]
    /\ op = [p \in Procs |-> "none"]
    /\ request = [p \in Procs |-> None]
    /\ password_hash = [p \in Procs |-> None]
    /\ user = [p \in Procs |-> None]
    /\ result = [p \in Procs |-> NoResult]
    /\ steps = [p \in Procs |-> <<>>]
    /\ atStart = [p \in Procs |-> [email |-> FALSE, username |-> FALSE]]
    /\ returned = {}
    /\ uuid_next = 0
    /\ clock = 0
    /\ calls = 0

\* ------------------------------------------- UserService (in-memory maps)
Finish(p, r) ==
    /\ result' = [result EXCEPT ![p] = r]
    /\ pc' = [pc EXCEPT ![p] = "done"]

Goto(p, label) ==
    /\ pc' = [pc EXCEPT ![p] = label]
    /\ UNCHANGED result

\* validate with the username checked before the email
validate_username_first(r) ==
    LET e == validate_email(r.email)
        u == validate_username(r.username)
        w == validate_password(r.password)
    IN  IF u # None THEN [ran |-> <<"validate_username">>, err |-> u]
        ELSE IF e # None
             THEN [ran |-> <<"validate_username", "validate_email">>, err |-> e]
             ELSE [ran |-> <<"validate_username", "validate_email",
                             "validate_password">>, err |-> w]

\* the three "?" lines that open create_user: the validators run in this
\* order and the first failure returns
validate(r) ==
    LET e == validate_email(r.email)
        u == validate_username(r.username)
        w == validate_password(r.password)
    IN  IF e # None THEN [ran |-> <<"validate_email">>, err |-> e]
        ELSE IF u # None
             THEN [ran |-> <<"validate_email", "validate_username">>, err |-> u]
             ELSE [ran |-> <<"validate_email", "validate_username",
                             "validate_password">>, err |-> w]

\* a caller enters create_user and its input is validated
CreateUserCall(p) ==
    /\ pc[p] = "idle"
    /\ calls < MaxCalls
    /\ \E r \in CreateUserRequest :
          /\ request' = [request EXCEPT ![p] = Some(r)]
          /\ atStart' = [atStart EXCEPT ![p] =
                            [email |-> contains_key(email_index, r.email),
                             username |-> contains_key(username_index, r.username)]]
          /\ steps' = [steps EXCEPT ![p] = validate(r).ran]
          /\ IF validate(r).err = None
             THEN Goto(p, "check_email")
             ELSE Finish(p, Err(validate(r).err[1]))
    /\ op' = [op EXCEPT ![p] = "create_user"]
    /\ calls' = calls + 1
    /\ UNCHANGED <<store, holder, table, locals, returned, uuid_next, clock>>

\* CheckEmail answering with the message of the username check
CheckEmailWrongMessage(p) ==
    /\ pc[p] = "check_email"
    /\ op[p] = "create_user"
    /\ holder["email_index"] = 0
    /\ steps' = Append1(p, "check_email")
    /\ IF contains_key(email_index, request[p][1].email)
       THEN Finish(p, Err(ValidationError("Username already exists")))
       ELSE Goto(p, "check_username")
    /\ UNCHANGED <<store, holder, table, op, request, locals, atStart, returned,
                   uuid_next, clock, calls>>

\* CheckEmail without the early return
CheckEmailNoReturn(p) ==
    /\ pc[p] = "check_email"
    /\ op[p] = "create_user"
    /\ holder["email_index"] = 0
    /\ steps' = Append1(p, "check_email")
    /\ Goto(p, "check_username")
    /\ UNCHANGED <<store, holder, table, op, request, locals, atStart, returned,
                   uuid_next, clock, calls>>

\* the block that locks email_index, tests contains_key and drops the guard
CheckEmail(p) ==
    /\ pc[p] = "check_email"
    /\ op[p] = "create_user"
    /\ holder["email_index"] = 0
    /\ steps' = Append1(p, "check_email")
    /\ IF contains_key(email_index, request[p][1].email)
       THEN Finish(p, Err(ValidationError("Email already exists")))
       ELSE Goto(p, "check_username")
    /\ UNCHANGED <<store, holder, table, op, request, locals, atStart, returned,
                   uuid_next, clock, calls>>

\* CheckUsername with the password hashed before the username is looked up
CheckUsernameHashFirst(p) ==
    /\ pc[p] = "check_username"
    /\ op[p] = "create_user"
    /\ holder["username_index"] = 0
    /\ IF contains_key(username_index, request[p][1].username)
       THEN /\ Finish(p, Err(ValidationError("Username already exists")))
            /\ steps' = [steps EXCEPT ![p] = @ \o <<"hash_password", "check_username">>]
            /\ UNCHANGED <<locals, uuid_next, clock>>
       ELSE \/ /\ Finish(p, Err(InternalError("Failed to hash password")))
               /\ steps' = [steps EXCEPT ![p] = @ \o <<"hash_password">>]
               /\ UNCHANGED <<locals, uuid_next, clock>>
            \/ /\ LET now == clock + 1
                      hash == hash_password(request[p][1].password)
                  IN  /\ clock' = now
                      /\ password_hash' = [password_hash EXCEPT ![p] = Some(hash)]
                      /\ user' = [user EXCEPT ![p] = Some(
                            [id |-> uuid_next + 1,
                             email |-> request[p][1].email,
                             username |-> request[p][1].username,
                             password_hash |-> hash,
                             is_verified |-> FALSE,
                             stellar_public_key |-> None,
                             created_at |-> now,
                             updated_at |-> now])]
               /\ uuid_next' = uuid_next + 1
               /\ steps' = [steps EXCEPT ![p] =
                               @ \o <<"hash_password", "check_username", "new_user">>]
               /\ Goto(p, "lock_users")
    /\ UNCHANGED <<store, holder, table, op, request, atStart, returned, calls>>

\* the block that locks username_index, tests contains_key and drops the
\* guard; then PasswordManager::hash_password(&request.password)?, which fails
\* inside the hasher or yields the hash, Uuid::new_v4(), Utc::now() and the
\* User literal.  Identifiers are handed out in sequence and every reading of
\* the clock is later than the one before.
CheckUsername(p) ==
    /\ pc[p] = "check_username"
    /\ op[p] = "create_user"
    /\ holder["username_index"] = 0
    /\ IF contains_key(username_index, request[p][1].username)
       THEN /\ Finish(p, Err(ValidationError("Username already exists")))
            /\ steps' = Append1(p, "check_username")
            /\ UNCHANGED <<locals, uuid_next, clock>>
       ELSE \/ /\ Finish(p, Err(InternalError("Failed to hash password")))
               /\ steps' = [steps EXCEPT ![p] = @ \o <<"check_username", "hash_password">>]
               /\ UNCHANGED <<locals, uuid_next, clock>>
            \/ /\ LET now == clock + 1
                      hash == hash_password(request[p][1].password)
                  IN  /\ clock' = now
                      /\ password_hash' = [password_hash EXCEPT ![p] = Some(hash)]
                      /\ user' = [user EXCEPT ![p] = Some(
                            [id |-> uuid_next + 1,
                             email |-> request[p][1].email,
                             username |-> request[p][1].username,
                             password_hash |-> hash,
                             is_verified |-> FALSE,
                             stellar_public_key |-> None,
                             created_at |-> now,
                             updated_at |-> now])]
               /\ uuid_next' = uuid_next + 1
               /\ steps' = [steps EXCEPT ![p] =
                               @ \o <<"check_username", "hash_password", "new_user">>]
               /\ Goto(p, "lock_users")
    /\ UNCHANGED <<store, holder, table, op, request, atStart, returned, calls>>

\* self.users.lock() of the "Store user" block
LockUsers(p) ==
    /\ pc[p] = "lock_users"
    /\ holder["users"] = 0
    /\ holder' = [holder EXCEPT !["users"] = p]
    /\ Goto(p, "lock_email_index")
    /\ UNCHANGED <<store, table, op, request, locals, steps, atStart, returned,
                   uuid_next, clock, calls>>

\* StoreUser writing over the account that already holds the email
StoreUserUpsert(p) ==
    /\ pc[p] = "lock_email_index"
    /\ holder["email_index"] = 0
    /\ holder["username_index"] = 0
    /\ LET key == IF contains_key(email_index, request[p][1].email)
                  THEN email_index[request[p][1].email]
                  ELSE user[p][1].id
       IN  /\ users' = insert(users, key, user[p][1])
           /\ email_index' = insert(email_index, request[p][1].email, key)
           /\ username_index' = insert(username_index, request[p][1].username, key)
    /\ holder' = [m \in DOMAIN holder |-> IF holder[m] = p THEN 0 ELSE holder[m]]
    /\ steps' = Append1(p, "store_user")
    /\ returned' = returned \cup {UserResponse(user[p][1])}
    /\ Finish(p, Ok(UserResponse(user[p][1])))
    /\ UNCHANGED <<table, op, request, locals, atStart, uuid_next, clock, calls>>

\* self.email_index.lock() and self.username_index.lock(), the three inserts,
\* the end of the block (the three guards dropped) and Ok(user.into())
StoreUser(p) ==
    /\ pc[p] = "lock_email_index"
    /\ holder["email_index"] = 0
    /\ holder["username_index"] = 0
    /\ users' = insert(users, user[p][1].id, user[p][1])
    /\ email_index' = insert(email_index, request[p][1].email, user[p][1].id)
    /\ username_index' = insert(username_index, request[p][1].username, user[p][1].id)
    /\ holder' = [m \in DOMAIN holder |-> IF holder[m] = p THEN 0 ELSE holder[m]]
    /\ steps' = Append1(p, "store_user")
    /\ returned' = returned \cup {UserResponse(user[p][1])}
    /\ Finish(p, Ok(UserResponse(user[p][1])))
    /\ UNCHANGED <<table, op, request, locals, atStart, uuid_next, clock, calls>>

\* users.get(&user_id).map(|user| user.clone().into())
get_user_by_id(user_id) ==
    LET found == get(users, user_id)
    IN  Ok(IF found = None THEN None ELSE Some(UserResponse(found[1])))

\* what get_user_by_email answers when nothing runs between its two lookups
get_user_by_email(email) ==
    LET hit == get(email_index, email)
    IN  IF hit = None THEN Ok(None) ELSE get_user_by_id(hit[1])

\* a caller enters get_user_by_id
GetUserByIdCall(p) ==
    /\ pc[p] = "idle"
    /\ calls < MaxCalls
    /\ \E id \in {r.id : r \in returned} \cup {0} : request' = [request EXCEPT ![p] = Some(id)]
    /\ op' = [op EXCEPT ![p] = "get_user_by_id"]
    /\ calls' = calls + 1
    /\ steps' = [steps EXCEPT ![p] = <<>>]
    /\ Goto(p, "get_user_by_id")
    /\ UNCHANGED <<store, holder, table, locals, atStart, returned, uuid_next, clock>>

\* get_user_by_id: lock users, clone the entry, drop the guard.  When it was
\* called from get_user_by_email the caller's email_index guard is dropped
\* on the way out as well.
GetUserById(p) ==
    /\ pc[p] = "get_user_by_id"
    /\ holder["users"] = 0
    /\ Finish(p, get_user_by_id(request[p][1]))
    /\ holder' = [m \in DOMAIN holder |-> IF holder[m] = p THEN 0 ELSE holder[m]]
    /\ UNCHANGED <<store, table, op, request, locals, steps, atStart, returned,
                   uuid_next, clock, calls>>

\* a caller enters get_user_by_email
GetUserByEmailCall(p) ==
    /\ pc[p] = "idle"
    /\ calls < MaxCalls
    /\ \E e \in {E1, E2} : request' = [request EXCEPT ![p] = Some(e)]
    /\ op' = [op EXCEPT ![p] = "get_user_by_email"]
    /\ calls' = calls + 1
    /\ steps' = [steps EXCEPT ![p] = <<>>]
    /\ Goto(p, "get_user_by_email")
    /\ UNCHANGED <<store, holder, table, locals, atStart, returned, uuid_next, clock>>

\* get_user_by_email: lock email_index; on a hit call get_user_by_id with the
\* guard still alive, otherwise Ok(None)
GetUserByEmail(p) ==
    /\ pc[p] = "get_user_by_email"
    /\ holder["email_index"] = 0
    /\ LET hit == get(email_index, request[p][1])
       IN  IF hit = None
           THEN /\ Finish(p, Ok(None))
                /\ UNCHANGED <<holder, request>>
           ELSE /\ holder' = [holder EXCEPT !["email_index"] = p]
                /\ request' = [request EXCEPT ![p] = hit]
                /\ Goto(p, "get_user_by_id")
    /\ UNCHANGED <<store, table, op, locals, steps, atStart, returned,
                   uuid_next, clock, calls>>

\* the call returns to its caller
Return(p) ==
    /\ pc[p] = "done"
    /\ pc' = [pc EXCEPT ![p] = "idle"]
    /\ op' = [op EXCEPT ![p] = "none"]
    /\ request' = [request EXCEPT ![p] = None]
    /\ password_hash' = [password_hash EXCEPT ![p] = None]
    /\ user' = [user EXCEPT ![p] = None]
    /\ result' = [result EXCEPT ![p] = NoResult]
    /\ steps' = [steps EXCEPT ![p] = <<>>]
    /\ atStart' = [atStart EXCEPT ![p] = [email |-> FALSE, username |-> FALSE]]
    /\ UNCHANGED <<store, holder, table, returned, uuid_next, clock, calls>>

Next ==
    \E p \in Procs :
        \/ CreateUserCall(p)
        \/ CheckEmail(p)
        \/ CheckUsername(p)
        \/ LockUsers(p)
        \/ StoreUser(p)
        \/ GetUserByIdCall(p)
        \/ GetUserById(p)
        \/ GetUserByEmailCall(p)
        \/ GetUserByEmail(p)
        \/ Return(p)

Spec == Init /\ [][Next]_vars

\* ------------------------------------------------ SqliteDatabase (sqlite.rs)
\* SELECT * FROM users WHERE email = ?1, fetch_optional
db_get_user_by_email(email) ==
    IF \E r \in table : r.email = email
    THEN Some(CHOOSE r \in table : r.email = email)
    ELSE None

\* SELECT * FROM users WHERE username = ?1, fetch_optional
db_get_user_by_username(username) ==
    IF \E r \in table : r.username = username
    THEN Some(CHOOSE r \in table : r.username = username)
    ELSE None

\* SELECT COUNT(*) as count FROM users
db_get_user_count == Cardinality(table)

\* the columns of the table declared PRIMARY KEY or UNIQUE in create_tables
\* on which the row u collides with a stored row
violated(u) ==
    {c \in {"id", "email", "username"} : \E r \in table : r[c] = u[c]}

\* the engine's message for a failed constraint on column c
constraint_message(c) == <<"UNIQUE constraint failed", "users", c>>
contains(msg, w) == \E i \in 1..Len(msg) : msg[i] = w

\* the map_err closure of SqliteDatabase::create_user
map_insert_error(msg) ==
    IF contains(msg, "UNIQUE constraint failed")
    THEN IF contains(msg, "email")
         THEN ValidationError("Email already exists")
         ELSE IF contains(msg, "username")
              THEN ValidationError("Username already exists")
              ELSE ValidationError("User already exists")
    ELSE [kind |-> "DatabaseError", msg |-> "Failed to create user"]

\* db_create_user with the row written before the constraint is reported
db_create_user_no_rollback(u) ==
    IF violated(u) # {}
    THEN {[table |-> table \cup {u},
           res |-> Err(map_insert_error(constraint_message(c)))] : c \in violated(u)}
    ELSE {[table |-> table \cup {u}, res |-> Ok(None)]}

\* SqliteDatabase::create_user: the INSERT either fails on a constraint, the
\* table unchanged and the error mapped from the engine's message, or adds the
\* row.  The outcomes the engine can produce for the row u.
db_create_user(u) ==
    IF violated(u) # {}
    THEN {[table |-> table, res |-> Err(map_insert_error(constraint_message(c)))] :
             c \in violated(u)}
    ELSE {[table |-> table \cup {u}, res |-> Ok(None)]}

\* ---------------------------------- UserService over the SqliteDatabase
\* a caller enters create_user and its input is validated
DbCreateUserCall(p) ==
    /\ pc[p] = "idle"
    /\ calls < MaxCalls
    /\ \E r \in CreateUserRequest :
          /\ request' = [request EXCEPT ![p] = Some(r)]
          /\ atStart' = [atStart EXCEPT ![p] =
                            [email |-> db_get_user_by_email(r.email) # None,
                             username |-> db_get_user_by_username(r.username) # None]]
          /\ steps' = [steps EXCEPT ![p] = validate(r).ran]
          /\ IF validate(r).err = None
             THEN Goto(p, "db_check_email")
             ELSE Finish(p, Err(validate(r).err[1]))
    /\ op' = [op EXCEPT ![p] = "create_user"]
    /\ calls' = calls + 1
    /\ UNCHANGED <<store, holder, table, locals, returned, uuid_next, clock>>

\* uniqueness pre-check on the email: db.get_user_by_email
DbCheckEmail(p) ==
    /\ pc[p] = "db_check_email"
    /\ steps' = Append1(p, "check_email")
    /\ IF db_get_user_by_email(request[p][1].email) # None
       THEN Finish(p, Err(ValidationError("Email already exists")))
       ELSE Goto(p, "db_check_username")
    /\ UNCHANGED <<store, holder, table, op, request, locals, atStart, returned,
                   uuid_next, clock, calls>>

\* uniqueness pre-check on the username: db.get_user_by_username; then the
\* password is hashed and the User is built
DbCheckUsername(p) ==
    /\ pc[p] = "db_check_username"
    /\ IF db_get_user_by_username(request[p][1].username) # None
       THEN /\ Finish(p, Err(ValidationError("Username already exists")))
            /\ steps' = Append1(p, "check_username")
            /\ UNCHANGED <<locals, uuid_next, clock>>
       ELSE \/ /\ Finish(p, Err(InternalError("Failed to hash password")))
               /\ steps' = [steps EXCEPT ![p] = @ \o <<"check_username", "hash_password">>]
               /\ UNCHANGED <<locals, uuid_next, clock>>
            \/ /\ LET now == clock + 1
                      hash == hash_password(request[p][1].password)
                  IN  /\ clock' = now
                      /\ password_hash' = [password_hash EXCEPT ![p] = Some(hash)]
                      /\ user' = [user EXCEPT ![p] = Some(
                            [id |-> uuid_next + 1,
                             email |-> request[p][1].email,
                             username |-> request[p][1].username,
                             password_hash |-> hash,
                             is_verified |-> FALSE,
                             stellar_public_key |-> None,
                             created_at |-> now,
                             updated_at |-> now])]
               /\ uuid_next' = uuid_next + 1
               /\ steps' = [steps EXCEPT ![p] =
                               @ \o <<"check_username", "hash_password", "new_user">>]
               /\ Goto(p, "db_create_user")
    /\ UNCHANGED <<store, holder, table, op, request, atStart, returned, calls>>

\* create_user calls db.create_user(&user)? and answers Ok(user.into())
DbCreateUser(p) ==
    /\ pc[p] = "db_create_user"
    /\ steps' = Append1(p, "store_user")
    /\ \E o \in db_create_user(user[p][1]) :
          /\ table' = o.table
          /\ IF o.res.ok
             THEN /\ returned' = returned \cup {UserResponse(user[p][1])}
                  /\ Finish(p, Ok(UserResponse(user[p][1])))
             ELSE /\ UNCHANGED returned
                  /\ Finish(p, o.res)
    /\ UNCHANGED <<store, holder, op, request, locals, atStart, uuid_next, clock, calls>>

\* the generic failure of authenticate_user
InvalidCredentials == AuthenticationError("Invalid credentials")

\* a caller enters authenticate_user(identifier, password)
AuthenticateUserCall(p) ==
    /\ pc[p] = "idle"
    /\ calls < MaxCalls
    /\ \E identifier \in {E1, U1, U2}, password \in Passwords :
          request' = [request EXCEPT ![p] =
                         Some([identifier |-> identifier, password |-> password])]
    /\ op' = [op EXCEPT ![p] = "authenticate_user"]
    /\ calls' = calls + 1
    /\ steps' = [steps EXCEPT ![p] = <<>>]
    /\ Goto(p, "auth_by_email")
    /\ UNCHANGED <<store, holder, table, locals, atStart, returned, uuid_next, clock>>

\* verify with an error of its own for a wrong password
verify_own_message(p, u) ==
    IF verify_password(request[p][1].password, u.password_hash)
    THEN Finish(p, Ok(UserResponse(u)))
    ELSE Finish(p, Err(AuthenticationError("Wrong password")))

\* the end of authenticate_user once the account u was found
verify(p, u) ==
    IF verify_password(request[p][1].password, u.password_hash)
    THEN Finish(p, Ok(UserResponse(u)))
    ELSE Finish(p, Err(InvalidCredentials))

\* the identifier is looked up as an email
AuthByEmail(p) ==
    /\ pc[p] = "auth_by_email"
    /\ LET found == db_get_user_by_email(request[p][1].identifier)
       IN  IF found = None THEN Goto(p, "auth_by_username") ELSE verify(p, found[1])
    /\ UNCHANGED <<store, holder, table, op, request, locals, steps, atStart,
                   returned, uuid_next, clock, calls>>

\* the identifier is looked up as a username, only when no email matched
AuthByUsername(p) ==
    /\ pc[p] = "auth_by_username"
    /\ LET found == db_get_user_by_username(request[p][1].identifier)
       IN  IF found = None THEN Finish(p, Err(InvalidCredentials)) ELSE verify(p, found[1])
    /\ UNCHANGED <<store, holder, table, op, request, locals, steps, atStart,
                   returned, uuid_next, clock, calls>>

\* get_user_count, as show_stats calls it
GetUserCount(p) ==
    /\ pc[p] = "idle"
    /\ calls < MaxCalls
    /\ op' = [op EXCEPT ![p] = "get_user_count"]
    /\ calls' = calls + 1
    /\ steps' = [steps EXCEPT ![p] = <<>>]
    /\ Finish(p, Ok(db_get_user_count))
    /\ UNCHANGED <<store, holder, table, request, locals, atStart, returned,
                   uuid_next, clock>>

NextDb ==
    \E p \in Procs :
        \/ DbCreateUserCall(p)
        \/ DbCheckEmail(p)
        \/ DbCheckUsername(p)
        \/ DbCreateUser(p)
        \/ AuthenticateUserCall(p)
        \/ AuthByEmail(p)
        \/ AuthByUsername(p)
        \/ GetUserCount(p)
        \/ Return(p)

SpecDb == Init /\ [][NextDb]_vars

\* ================================================================ claims
Done(p) == pc[p] = "done" /\ op[p] = "create_user"
Last(p) == IF steps[p] = <<>> THEN "none" ELSE steps[p][Len(steps[p])]
DuplicateEmail(r) == r = Err(ValidationError("Email already exists"))
DuplicateUsername(r) == r = Err(ValidationError("Username already exists"))
HashFailed(r) == r = Err(InternalError("Failed to hash password"))

\* C1: two callers that ran create_user concurrently with the same valid email
\* and different usernames, neither email nor usernames stored when they were
\* called, end with exactly one success and one duplicate-email failure.
C1_ExactlyOneSucceeds ==
    \A p, q \in Procs :
        ( /\ p # q
          /\ Done(p) /\ Done(q)
          /\ request[p][1].email = request[q][1].email
          /\ request[p][1].username # request[q][1].username
          /\ validate(request[p][1]).err = None
          /\ validate(request[q][1]).err = None
          /\ ~atStart[p].email /\ ~atStart[p].username
          /\ ~atStart[q].email /\ ~atStart[q].username
          /\ ~HashFailed(result[p]) /\ ~HashFailed(result[q]) )
        => \/ result[p].ok /\ DuplicateEmail(result[q])
           \/ result[q].ok /\ DuplicateEmail(result[p])

\* C2: no two stored accounts share an email and no two share a username.
C2_UniqueEmailAndUsername ==
    \A i, j \in DOMAIN users :
        i # j => /\ users[i].email # users[j].email
                 /\ users[i].username # users[j].username

\* C3: every step of a create_user call that was made while its email or its
\* username was stored leaves the account map and both indexes as they were,
\* and the call ends in a failure.
C3_DuplicateLeavesStore ==
    [][\A p \in Procs :
          ( /\ pc'[p] # pc[p]
            /\ \/ op[p] = "create_user" /\ (atStart[p].email \/ atStart[p].username)
               \/ op'[p] = "create_user" /\ (atStart'[p].email \/ atStart'[p].username) )
          => /\ UNCHANGED store
             /\ (pc'[p] = "done" => IsErr(result'[p]))]_vars

\* a well-formed request for a stored email was answered
C3_Witness ==
    \E p \in Procs :
        /\ Done(p)
        /\ atStart[p].email
        /\ validate(request[p][1]).err = None
        /\ DuplicateEmail(result[p])
        /\ DOMAIN users # {}

\* C4: the count query answers the number of create_user calls that returned
\* success (each returned account carries its own id).
C4_CountEqualsSuccesses == db_get_user_count = Cardinality(returned)

\* one creation succeeded, another was refused by the table's constraint
C4_Witness ==
    /\ db_get_user_count = 1
    /\ \E p \in Procs :
          /\ Done(p)
          /\ Last(p) = "store_user"
          /\ IsErr(result[p])

\* C5: every account create_user returned is what get_user_by_email answers
\* for its email and what get_user_by_id answers for its id.
C5_Retrievable ==
    \A r \in returned :
        /\ get_user_by_email(r.email) = Ok(Some(r))
        /\ get_user_by_id(r.id) = Ok(Some(r))

\* C6: a create_user call whose insert meets its email or its username already
\* in the index does not return success.
C6_CollisionIsAnError ==
    [][\A p \in Procs :
          ( /\ pc[p] = "lock_email_index"
            /\ pc'[p] = "done"
            /\ \/ contains_key(email_index, request[p][1].email)
               \/ contains_key(username_index, request[p][1].username) )
          => ~result'[p].ok]_vars

\* C7: a finished create_user call with an invalid field ran the validators in
\* the order email, username, password up to the first invalid field, returned
\* that field's error and did nothing else.
C7_FirstInvalidField ==
    \A p \in Procs :
        Done(p) =>
            LET r == request[p][1]
                e == validate_email(r.email)
                u == validate_username(r.username)
                w == validate_password(r.password)
            IN  /\ e # None =>
                      /\ result[p] = Err(e[1])
                      /\ steps[p] = <<"validate_email">>
                /\ (e = None /\ u # None) =>
                      /\ result[p] = Err(u[1])
                      /\ steps[p] = <<"validate_email", "validate_username">>
                /\ (e = None /\ u = None /\ w # None) =>
                      /\ result[p] = Err(w[1])
                      /\ steps[p] = <<"validate_email", "validate_username",
                                      "validate_password">>

\* a request whose email and username are both invalid was refused
C7_Witness ==
    \E p \in Procs :
        /\ Done(p)
        /\ validate_email(request[p][1].email) # None
        /\ validate_username(request[p][1].username) # None
        /\ result[p] = Err(validate_email(request[p][1].email)[1])

\* the statements of create_user in program order
Pipeline ==
    <<"validate_email", "validate_username", "validate_password", "check_email",
      "check_username", "hash_password", "new_user", "store_user">>

\* C8: the statements a create_user call has executed are an initial part of
\* validation, uniqueness checks (email, then username), hashing, persisting;
\* a call refused by validation or by a uniqueness check has not hashed, and
\* the store is written only by a call that holds a hash.
C8_PipelineOrder ==
    \A p \in Procs :
        op[p] = "create_user" =>
            /\ Len(steps[p]) <= Len(Pipeline)
            /\ steps[p] = SubSeq(Pipeline, 1, Len(steps[p]))
            /\ (pc[p] = "done" /\ IsErr(result[p]) /\ result[p].err[1].kind = "ValidationError")
                  => \A i \in 1..Len(steps[p]) : steps[p][i] # "hash_password"
            /\ (\E i \in 1..Len(steps[p]) : steps[p][i] = "hash_password")
                  => /\ validate(request[p][1]).err = None
                     /\ ~HashFailed(result[p]) => password_hash[p] # None
            /\ Last(p) = "store_user" => /\ password_hash[p] # None
                                         /\ pc[p] = "done"

\* a call went through the whole pipeline
C8_Witness ==
    \E p \in Procs : Done(p) /\ result[p].ok /\ steps[p] = Pipeline

\* C9: every failed authenticate_user call returns the same error, whether
\* the identifier matched an account or not.
C9_SameAuthenticationError ==
    \A p, q \in Procs :
        ( /\ op[p] = "authenticate_user" /\ pc[p] = "done" /\ ~result[p].ok
          /\ op[q] = "authenticate_user" /\ pc[q] = "done" /\ ~result[q].ok )
        => /\ result[p] = result[q]
           /\ result[p].err[1].kind = "AuthenticationError"

\* one call failed on the username of a stored account with a wrong password,
\* another on an identifier that matches no account
C9_Witness ==
    \E p, q \in Procs :
        /\ op[p] = "authenticate_user" /\ pc[p] = "done" /\ ~result[p].ok
        /\ op[q] = "authenticate_user" /\ pc[q] = "done" /\ ~result[q].ok
        /\ \E r \in table : /\ r.username = request[p][1].identifier
                            /\ ~verify_password(request[p][1].password, r.password_hash)
        /\ db_get_user_by_email(request[q][1].identifier) = None
        /\ db_get_user_by_username(request[q][1].identifier) = None

C11_AccountsAreImmutable ==
    [][/\ \A id \in DOMAIN users :
             /\ id \in DOMAIN users'
             /\ users'[id] = users[id]
       /\ \A id \in DOMAIN users' \ DOMAIN users :
             /\ users'[id].id = id
             /\ users'[id].is_verified = FALSE
             /\ users'[id].stellar_public_key = None
             /\ users'[id].updated_at = users'[id].created_at
             /\ \E p \in Procs : /\ pc[p] = "lock_email_index"
                                 /\ users'[id] = user[p][1]
                                 /\ users'[id].email = request[p][1].email
                                 /\ users'[id].username = request[p][1].username
                                 /\ users'[id].password_hash = password_hash[p][1]]_vars

\* an account was stored beside an account with the same email stored earlier
C11_Witness ==
    \E i, j \in DOMAIN users :
        /\ i < j
        /\ users[i].email = users[j].email
        /\ users[i].created_at < users[j].created_at
        /\ \E p \in Procs : Done(p) /\ result[p] = Ok(UserResponse(users[j]))

\* the mutex the caller p is about to lock, "none" when it is not at a lock()
Wanted(p) ==
    CASE pc[p] \in {"check_email", "lock_email_index", "get_user_by_email"} -> "email_index"
      [] pc[p] \in {"lock_users", "get_user_by_id"} -> "users"
      [] pc[p] = "check_username" -> "username_index"
      [] OTHER -> "none"

\* C12: no two calls each hold a mutex the other one is waiting for.
C12_NoDeadlock ==
    ~ \E p, q \in Procs :
          /\ p # q
          /\ Wanted(p) # "none" /\ holder[Wanted(p)] = q
          /\ Wanted(q) # "none" /\ holder[Wanted(q)] = p

\* C13: while no create_user call is inside its store block, every index
\* entry names a stored account with that email or username, and every stored
\* account is what the indexes name for its email and for its username.
C13_IndexesAgree ==
    (\A p \in Procs : pc[p] # "lock_email_index") =>
        /\ \A e \in DOMAIN email_index :
              /\ email_index[e] \in DOMAIN users
              /\ users[email_index[e]].email = e
        /\ \A u \in DOMAIN username_index :
              /\ username_index[u] \in DOMAIN users
              /\ users[username_index[u]].username = u
        /\ \A id \in DOMAIN users :
              /\ get(email_index, users[id].email) = Some(id)
              /\ get(username_index, users[id].username) = Some(id)

====
